---- MODULE Spec2Model ----
(***************************************************************************)
(* Model of the mercator recipe store (LocalFileSystemRecipeStore) and of  *)
(* the three-pass agent orchestration (runAgentOrchestrationSlice).        *)
(*                                                                         *)
(* The store is modelled as a set of concurrent calls over one directory:  *)
(* every await of the source that touches the file system is a step of     *)
(* its own, so reads and writes of different calls interleave as they do   *)
(* on the Node.js event loop.                                              *)
(***************************************************************************)
EXTENDS Integers, Sequences, FiniteSets, TLC

(***************************************************************************)
(* Bounds of the model                                                     *)
(***************************************************************************)
\* Call slots of the store: calls in flight at once on one event loop.
Procs == {"p1", "p2"}

\* The slot used when the caller awaits every call before the next one.
SequentialProcs == {"p1"}

\* Recipe ids: the ids a caller may supply and randomUUID() may return.
Ids == {"r1", "r2"}

\* Opaque field-recipe payloads (target.fields of a recipe).
FieldSets == {"fieldsA"}

\* Actors of the options argument ("undefined" is an absent actor).
Actors == {"undefined", "qa@mercator"}

\* Document targets a caller may pass in options.document.
Documents == {[domain |-> "demo.mercator.sh", path |-> "/products/test"]}

(***************************************************************************)
(* Values                                                                  *)
(***************************************************************************)
\* An optional value: <<>> is undefined, <<x>> is x.
None == <<>>
Some(x) == <<x>>
IsSome(o) == Len(o) > 0
Get(o) == o[1]

\* Date values are milliseconds since the epoch.
Instants == {0, 600}

\* Date.prototype.toISOString: the textual form, seconds and milliseconds.
ToISOString(d) == [sec |-> d \div 1000, ms |-> d % 1000]

\* new Date(isoString) / z.coerce.date() on an ISO string.
DateFromISO(s) == (s.sec * 1000) + s.ms

LifecycleStates == {"draft", "candidate", "stable", "retired"}

\* isLifecycleState
isLifecycleState(value) == value \in LifecycleStates

\* A lifecycle event of a recipe held in memory (at is a Date).
Event(state, at, actor, notes) ==
    [state |-> state, at |-> at, actor |-> actor, notes |-> notes]

\* normalizeHistory: every event with at re-wrapped as a Date.
normalizeHistory(history) ==
    [i \in 1..Len(history) |->
        Event(history[i].state, history[i].at, history[i].actor, history[i].notes)]

Last(s) == s[Len(s)]

IsPrefix(s, t) == Len(s) <= Len(t) /\ \A i \in 1..Len(s) : s[i] = t[i]


(***************************************************************************)
(* Recipes and records                                                     *)
(***************************************************************************)
\* A Recipe held in memory, reduced to the parts the store reads or writes.
Recipe(id, fields, createdAt, updatedAt, updatedBy, lifecycle) ==
    [id |-> id, fields |-> fields, createdAt |-> createdAt,
     updatedAt |-> updatedAt, updatedBy |-> updatedBy, lifecycle |-> lifecycle]

Lifecycle(state, since, history) ==
    [state |-> state, since |-> since, history |-> history]

\* The options argument of createDraft and promote, with
\* now = options.when ?? this.now() already resolved.
Options(actor, notes, now, document) ==
    [actor |-> actor, notes |-> notes, now |-> now, document |-> document]

\* options.notes ?? fallback
NotesOr(notes, fallback) == IF IsSome(notes) THEN Get(notes) ELSE fallback

\* DraftRecord that appends a draft event whatever the history ends in.
DraftRecord_AlwaysAppend(candidate, id, options) ==
    LET now == options.now
        draftHistory ==
            Append(normalizeHistory(candidate.lifecycle.history),
                   Event("draft", now, options.actor,
                         NotesOr(options.notes, "Recipe stored as draft")))
    IN  [id |-> id,
         recipe |-> [candidate EXCEPT
                        !.id = Some(id),
                        !.updatedAt = now,
                        !.lifecycle = Lifecycle("draft", candidate.lifecycle.since, draftHistory)],
         createdAt |-> ToISOString(now),
         updatedAt |-> ToISOString(now),
         promotedAt |-> None]

\* DraftRecord that stores the history of the candidate as it came.
DraftRecord_KeepHistory(candidate, id, options) ==
    [DraftRecord_AlwaysAppend(candidate, id, options) EXCEPT
        !.recipe.lifecycle.history = normalizeHistory(candidate.lifecycle.history)]

\* createDraft, lines 57-91: the FileRecord built for a draft recipe.
DraftRecord(candidate, id, options) ==
    LET now == options.now
        history == normalizeHistory(candidate.lifecycle.history)
        draftHistory ==
            IF Len(history) > 0 /\ Last(history).state = "draft"
            THEN history
            ELSE Append(history,
                        Event("draft", now, options.actor,
                              NotesOr(options.notes, "Recipe stored as draft")))
        normalized ==
            [candidate EXCEPT
                !.id = Some(id),
                !.updatedAt = now,
                !.lifecycle =
                    Lifecycle("draft",
                              IF candidate.lifecycle.state = "draft"
                              THEN candidate.lifecycle.since ELSE now,
                              draftHistory)]
    IN  [id |-> id,
         recipe |-> normalized,
         createdAt |-> ToISOString(now),
         updatedAt |-> ToISOString(now),
         promotedAt |-> None]

\* PromotedRecord that forgets to stamp promotedAt.
PromotedRecord_NoPromotedAt(record, options) ==
    LET now == options.now
        promotedHistory ==
            Append(normalizeHistory(record.recipe.lifecycle.history),
                   Event("stable", now, options.actor,
                         NotesOr(options.notes, "Promoted to stable")))
    IN  [id |-> record.id,
         recipe |-> [record.recipe EXCEPT
                        !.updatedAt = now,
                        !.updatedBy = IF options.actor # "undefined" THEN options.actor ELSE @,
                        !.lifecycle = Lifecycle("stable", now, promotedHistory)],
         createdAt |-> ToISOString(record.createdAt),
         updatedAt |-> ToISOString(now),
         promotedAt |-> None]

\* promote, lines 145-173: the FileRecord built from the record that was read.
\* The spread of the StoredRecipe carries createdAt as a Date, which
\* JSON.stringify writes as its ISO string.
PromotedRecord(record, options) ==
    LET now == options.now
        history == normalizeHistory(record.recipe.lifecycle.history)
        promotedHistory ==
            Append(history,
                   Event("stable", now, options.actor,
                         NotesOr(options.notes, "Promoted to stable")))
        updatedRecipe ==
            [record.recipe EXCEPT
                !.updatedAt = now,
                !.updatedBy = IF options.actor # "undefined" THEN options.actor ELSE @,
                !.lifecycle = Lifecycle("stable", now, promotedHistory)]
    IN  [id |-> record.id,
         recipe |-> updatedRecipe,
         createdAt |-> ToISOString(record.createdAt),
         updatedAt |-> ToISOString(now),
         promotedAt |-> Some(ToISOString(now))]

\* writeRecord, lines 228-240: the recipe with every Date as an ISO string.
RecipeToJSON(recipe) ==
    [recipe EXCEPT
        !.createdAt = ToISOString(@),
        !.updatedAt = ToISOString(@),
        !.lifecycle =
            [state |-> @.state,
             since |-> ToISOString(@.since),
             history |->
                [i \in 1..Len(@.history) |->
                    [@.history[i] EXCEPT !.at = ToISOString(@)]]]]

\* RecipeSchema.parse on parsed JSON: z.coerce.date() on every timestamp.
RecipeFromJSON(json) ==
    [json EXCEPT
        !.createdAt = DateFromISO(@),
        !.updatedAt = DateFromISO(@),
        !.lifecycle =
            [state |-> @.state,
             since |-> DateFromISO(@.since),
             history |->
                [i \in 1..Len(@.history) |->
                    [@.history[i] EXCEPT !.at = DateFromISO(@)]]]]

\* The content of a file of the directory.
NoFile == [kind |-> "none"]
\* A file opened for writing (truncated) whose content is not yet complete.
PartialFile == [kind |-> "partial"]
RecordFile(json) == [kind |-> "record", json |-> json]

\* writeRecord, lines 225-244: the JSON document written for a FileRecord.
Serialize(record) ==
    RecordFile([id |-> record.id,
                recipe |-> RecipeToJSON(record.recipe),
                createdAt |-> record.createdAt,
                updatedAt |-> record.updatedAt,
                promotedAt |-> record.promotedAt])

\* readRecord, lines 196-220, on a file holding a complete JSON document.
\* The returned object has no document property.
ParseRecord(json) ==
    [id |-> json.id,
     recipe |-> RecipeFromJSON(json.recipe),
     createdAt |-> DateFromISO(json.createdAt),
     updatedAt |-> DateFromISO(json.updatedAt),
     promotedAt |-> IF IsSome(json.promotedAt)
                    THEN Some(DateFromISO(Get(json.promotedAt))) ELSE None,
     document |-> None]

\* readRecord throws (JSON.parse) on a file that is not one complete document.
ReadThrows(content) == content.kind = "partial"

\* readRecord: undefined on ENOENT, the StoredRecipe otherwise.
readRecord(content) ==
    IF content.kind = "none" THEN None ELSE Some(ParseRecord(content.json))

\* hydrate, lines 249-266. The returned object has no document property.
hydrate(record) ==
    [id |-> record.id,
     recipe |-> [record.recipe EXCEPT
                    !.lifecycle.history = normalizeHistory(@)],
     createdAt |-> DateFromISO(record.createdAt),
     updatedAt |-> DateFromISO(record.updatedAt),
     promotedAt |-> IF IsSome(record.promotedAt)
                    THEN Some(DateFromISO(Get(record.promotedAt))) ELSE None,
     document |-> None]

(***************************************************************************)
(* list and getLatestStable                                                *)
(***************************************************************************)
\* Array.prototype.sort is stable: an element goes after every element that
\* does not compare greater than it.
InsertAscending(sorted, x) ==
    LET k == Cardinality({i \in 1..Len(sorted) : sorted[i].updatedAt <= x.updatedAt})
    IN  SubSeq(sorted, 1, k) \o <<x>> \o SubSeq(sorted, k + 1, Len(sorted))

InsertDescending(sorted, x) ==
    LET k == Cardinality({i \in 1..Len(sorted) : sorted[i].updatedAt >= x.updatedAt})
    IN  SubSeq(sorted, 1, k) \o <<x>> \o SubSeq(sorted, k + 1, Len(sorted))

RECURSIVE SortAscending(_)
\* list, line 120: sort((a, b) => a.updatedAt - b.updatedAt)
SortAscending(recipes) ==
    IF Len(recipes) = 0 THEN <<>>
    ELSE InsertAscending(SortAscending(SubSeq(recipes, 1, Len(recipes) - 1)),
                         Last(recipes))

RECURSIVE SortDescending(_)
\* getLatestStable, line 181: sort((a, b) => b.updatedAt - a.updatedAt)
SortDescending(recipes) ==
    IF Len(recipes) = 0 THEN <<>>
    ELSE InsertDescending(SortDescending(SubSeq(recipes, 1, Len(recipes) - 1)),
                          Last(recipes))

\* The orders in which readdir may report the entries of a directory.
ReaddirOrders(dir) ==
    LET present == {i \in Ids : dir[i].kind # "none"}
    IN  {o \in [1..Cardinality(present) -> present] :
            \A a, b \in 1..Cardinality(present) : a # b => o[a] # o[b]}

\* list rejects when readRecord throws on an entry.
listThrows(dir) == \E i \in Ids : ReadThrows(dir[i])

RECURSIVE Collect(_, _, _)
\* list, lines 103-118: the records read in readdir order that pass the filter
\* (filter "undefined" is no filter).
Collect(dir, order, filter) ==
    IF Len(order) = 0 THEN <<>>
    ELSE LET record == readRecord(dir[order[1]])
             rest == Collect(dir, Tail(order), filter)
         IN  IF ~IsSome(record) THEN rest
             ELSE IF filter # "undefined" /\ Get(record).recipe.lifecycle.state # filter
                  THEN rest
                  ELSE <<Get(record)>> \o rest

\* list, lines 98-121
list(dir, order, filter) == SortAscending(Collect(dir, order, filter))

\* getLatestStable that lists without the state filter.
getLatestStable_Unfiltered(dir, order) ==
    LET entries == SortDescending(list(dir, order, "undefined"))
    IN  IF Len(entries) = 0 THEN None ELSE Some(entries[1])

\* getLatestStable, lines 179-182
getLatestStable(dir, order) ==
    LET entries == SortDescending(list(dir, order, "stable"))
    IN  IF Len(entries) = 0 THEN None ELSE Some(entries[1])

(***************************************************************************)
(* State                                                                   *)
(***************************************************************************)
VARIABLES
    files,      \* the directory: recipe id -> content of <id>.json
    pc,         \* per call slot: "idle", "write" (writeFile pending), "writing"
    call,       \* per call slot: the store call in flight and its arguments
    pending,    \* per call slot: the FileRecord handed to writeRecord
    ret         \* the outcome delivered by the step just taken, if it ended a call

storeVars == <<files, pc, call, pending, ret>>

\* The state of one orchestration run (runAgentOrchestrationSlice).
VARIABLES
    clock,                  \* the reading of now()
    ostate,                 \* position of the orchestration
    budget,                 \* the AgentBudget of the run
    start,                  \* the time the orchestration started
    ruleSet,                \* whether the rule lookup matched the document
    executedPasses,         \* budget guard: passes completed
    totalToolInvocations,   \* budget guard: cumulative tool invocations
    usageLog,               \* length of the toolset's usage log
    passIndex,              \* the pass being executed (1..3)
    started,                \* the time beforePass returned for the pass
    generatedArtifacts,     \* whether synthesizeRecipeWithAgent has run
    passes,                 \* the PassSummary of every completed pass
    oresult                 \* outcome of the orchestration

orchVars ==
    <<clock, ostate, budget, start, ruleSet, executedPasses, totalToolInvocations,
      usageLog, passIndex, started, generatedArtifacts, passes, oresult>>

\* The workflow service over the store.
VARIABLE
    svc         \* the last call of generateRecipe or parseDocument

\* The calls of the pure functions of the validation pass.
VARIABLES
    minput,     \* the arguments of a compareMoney call
    mresult,    \* what the compareMoney call returned
    vinput,     \* the arguments of a validateRecipeAgainstDocument call
    vresult,    \* what the validateRecipeAgainstDocument call returned or threw
    tinput,     \* the arguments of a compareText call
    tresult,    \* what the compareText call returned
    xinput,     \* the html and the field recipes of the executeRecipe calls
    xout,       \* what the executeRecipe calls made so far returned or threw
    sinput,     \* the document of a synthesizeRecipeWithAgent call
    sresult     \* what the synthesizeRecipeWithAgent call returned or threw

pureVars == <<minput, mresult, vinput, vresult, tinput, tresult, xinput, xout,
              sinput, sresult>>

vars == <<files, pc, call, pending, ret, clock, ostate, budget, start, ruleSet,
          executedPasses, totalToolInvocations, usageLog, passIndex, started,
          generatedArtifacts, passes, oresult, minput, mresult, vinput, vresult,
          tinput, tresult, xinput, xout, sinput, sresult, svc>>

IdleCall == [op |-> "none", recipe |-> None, id |-> "", options |-> None, seen |-> None]

NoReturn ==
    [proc |-> "", op |-> "none", arg |-> "", outcome |-> "none", value |-> <<>>, error |-> ""]

\* The call op(arg) of slot p resolved with value (arg is the id argument).
Returned(p, op, arg, value) ==
    [proc |-> p, op |-> op, arg |-> arg, outcome |-> "returned", value |-> value, error |-> ""]

\* The call op(arg) of slot p rejected with error.
Threw(p, op, arg, error) ==
    [proc |-> p, op |-> op, arg |-> arg, outcome |-> "threw", value |-> <<>>, error |-> error]

\* Error messages of the store ("Recipe ${id} not found." without the id;
\* ErrSyntax is what JSON.parse throws on a file that is not a JSON document).
ErrOnlyDraftStored == "Only draft recipes may be stored."
ErrNotFound == "Recipe not found."
ErrAlreadyStable == "Recipe is already stable."
ErrOnlyDraftPromoted == "Only draft recipes can be promoted."
ErrSyntax == "SyntaxError"

(***************************************************************************)
(* Inputs                                                                  *)
(***************************************************************************)
\* Lifecycle histories of the recipes handed to createDraft: none, one that
\* ends in a draft event, one that ends in another event.
InputHistories ==
    { <<>>,
      <<Event("draft", 0, "author", "Initial draft")>>,
      <<Event("stable", 0, "author", "Imported")>> }

InputRecipe(id, fields, state, history) ==
    Recipe(id, fields, 0, 0, "author", Lifecycle(state, 0, history))

\* The ids a caller supplies with a recipe (none: the store generates one).
InputIds == {None} \cup {Some(i) : i \in Ids}

\* Recipes handed to createDraft by a sequential caller.
InputRecipes ==
    { InputRecipe(id, f, "draft", h) :
        id \in InputIds, f \in FieldSets, h \in InputHistories }
    \cup
    { InputRecipe(id, f, st, <<>>) :
        id \in InputIds, f \in FieldSets, st \in {"stable", "candidate"} }

\* Options handed to createDraft.
DraftOptions ==
    { Options("agent-workflow", None, now, d) :
        now \in Instants, d \in {None} \cup {Some(doc) : doc \in Documents} }

\* Options handed to promote.
PromoteOptions ==
    { Options(a, None, now, None) : a \in Actors, now \in Instants }

\* The narrower inputs of the concurrent callers.
RaceRecipes ==
    { InputRecipe(id, "fieldsA", st, <<>>) :
        id \in {None, Some("r1")}, st \in {"draft", "stable"} }

RaceDraftOptions == { Options("agent-workflow", None, now, None) : now \in Instants }

RacePromoteOptions == { Options("qa@mercator", None, now, None) : now \in Instants }

\* A record left in the directory by an earlier writer, in a lifecycle state
\* the schema allows but this store never writes.
LegacyRecord(id) ==
    [id |-> id,
     recipe |-> Recipe(Some(id), "fieldsA", 0, 0, "author",
                       Lifecycle("candidate", 0,
                                 <<Event("draft", 0, "author", "Initial draft"),
                                   Event("candidate", 0, "author", "Under review")>>)),
     createdAt |-> ToISOString(0),
     updatedAt |-> ToISOString(0),
     promotedAt |-> None]

\* The directories a store may be constructed over (mkdir recursive keeps
\* whatever is already there).
InitialDirectories ==
    { [i \in Ids |-> NoFile] } \cup
    { [i \in Ids |-> IF i = j THEN Serialize(LegacyRecord(j)) ELSE NoFile] : j \in Ids }

\* What a call of the workflow service did: the validation status of its
\* orchestration, whether a document was fetched or read, the stored recipe
\* it executed.
ServiceCall(op, outcome, error, validation, fetched, used) ==
    [op |-> op, outcome |-> outcome, error |-> error, validation |-> validation,
     fetched |-> fetched, used |-> used]

StoreInit ==
    /\ files \in InitialDirectories
    /\ pc = [p \in Procs |-> "idle"]
    /\ call = [p \in Procs |-> IdleCall]
    /\ pending = [p \in Procs |-> None]
    /\ ret = NoReturn
    /\ svc = ServiceCall("none", "none", "", "", FALSE, None)

(***************************************************************************)
(* Store operations                                                        *)
(***************************************************************************)
\* randomUUID(): an id no file and no write in flight carries.
RandomUUIDs ==
    {i \in Ids : files[i].kind = "none"
                 /\ \A q \in Procs : IsSome(pending[q]) => Get(pending[q]).id # i}

\* createDraft, lines 52-55: a recipe that is not a draft is rejected.
CreateDraftRejected(p, recipe) ==
    /\ UNCHANGED <<orchVars, pureVars, svc>>
    /\ pc[p] = "idle"
    /\ recipe.lifecycle.state # "draft"
    /\ ret' = Threw(p, "createDraft", "", ErrOnlyDraftStored)
    /\ UNCHANGED <<files, pc, call, pending>>

\* createDraft, lines 57-93: the record is built and handed to writeRecord.
CreateDraftAccepted(p, recipe, options) ==
    /\ UNCHANGED <<orchVars, pureVars, svc>>
    /\ pc[p] = "idle"
    /\ recipe.lifecycle.state = "draft"
    /\ \E id \in (IF IsSome(recipe.id) THEN {Get(recipe.id)} ELSE RandomUUIDs) :
        /\ call' = [call EXCEPT ![p] =
                        [op |-> "createDraft", recipe |-> Some(recipe), id |-> id,
                         options |-> Some(options), seen |-> None]]
        /\ pending' = [pending EXCEPT ![p] = Some(DraftRecord(recipe, id, options))]
    /\ pc' = [pc EXCEPT ![p] = "write"]
    /\ ret' = NoReturn
    /\ UNCHANGED files

\* promoteError without the check for an already stable record.
promoteError_NoStableCheck(record) ==
    IF ~IsSome(record) THEN ErrNotFound
    ELSE IF Get(record).recipe.lifecycle.state # "draft" THEN ErrOnlyDraftPromoted
    ELSE ""

\* promote, lines 133-143: the error promote raises on the record it read,
\* "" when the record may be promoted.
promoteError(record) ==
    IF ~IsSome(record) THEN ErrNotFound
    ELSE IF Get(record).recipe.lifecycle.state = "stable" THEN ErrAlreadyStable
    ELSE IF Get(record).recipe.lifecycle.state # "draft" THEN ErrOnlyDraftPromoted
    ELSE ""

\* promote, lines 131-143: readRecord throws, or the record is refused.
PromoteRejected(p, id, options) ==
    /\ UNCHANGED <<orchVars, pureVars, svc>>
    /\ pc[p] = "idle"
    /\ \/ /\ ReadThrows(files[id])
          /\ ret' = Threw(p, "promote", id, ErrSyntax)
       \/ /\ ~ReadThrows(files[id])
          /\ promoteError(readRecord(files[id])) # ""
          /\ ret' = Threw(p, "promote", id, promoteError(readRecord(files[id])))
    /\ UNCHANGED <<files, pc, call, pending>>

\* promote, lines 131-175: the draft record is read and its successor is
\* handed to writeRecord.
PromoteRead(p, id, options) ==
    /\ UNCHANGED <<orchVars, pureVars, svc>>
    /\ pc[p] = "idle"
    /\ ~ReadThrows(files[id])
    /\ LET record == readRecord(files[id])
       IN  /\ promoteError(record) = ""
           /\ call' = [call EXCEPT ![p] =
                          [op |-> "promote", recipe |-> None, id |-> id,
                           options |-> Some(options), seen |-> record]]
           /\ pending' = [pending EXCEPT ![p] = Some(PromotedRecord(Get(record), options))]
    /\ pc' = [pc EXCEPT ![p] = "write"]
    /\ ret' = NoReturn
    /\ UNCHANGED files

\* writeRecord, line 246: writeFile opens the file, which truncates it.
WriteOpen(p) ==
    /\ UNCHANGED <<orchVars, pureVars, svc>>
    /\ pc[p] = "write"
    /\ files' = [files EXCEPT ![Get(pending[p]).id] = PartialFile]
    /\ pc' = [pc EXCEPT ![p] = "writing"]
    /\ ret' = NoReturn
    /\ UNCHANGED <<call, pending>>

\* writeRecord, line 246, and lines 95 / 176: the content is written and the
\* call returns the hydrated record.
WriteFinish(p) ==
    /\ UNCHANGED <<orchVars, pureVars, svc>>
    /\ pc[p] = "writing"
    /\ files' = [files EXCEPT ![Get(pending[p]).id] = Serialize(Get(pending[p]))]
    /\ ret' = Returned(p, call[p].op, call[p].id, Some(hydrate(Get(pending[p]))))
    /\ pc' = [pc EXCEPT ![p] = "idle"]
    /\ call' = [call EXCEPT ![p] = IdleCall]
    /\ pending' = [pending EXCEPT ![p] = None]

\* The process dies while a writeFile is in progress; a new process is
\* started over the same directory.
WriterCrash ==
    /\ UNCHANGED <<orchVars, pureVars, svc>>
    /\ \E p \in Procs : pc[p] = "writing"
    /\ pc' = [p \in Procs |-> "idle"]
    /\ call' = [p \in Procs |-> IdleCall]
    /\ pending' = [p \in Procs |-> None]
    /\ ret' = NoReturn
    /\ UNCHANGED files

\* getById, lines 123-127
GetById(p, id) ==
    /\ UNCHANGED <<orchVars, pureVars, svc>>
    /\ pc[p] = "idle"
    /\ ret' = IF ReadThrows(files[id])
              THEN Threw(p, "getById", id, ErrSyntax)
              ELSE Returned(p, "getById", id, readRecord(files[id]))
    /\ UNCHANGED <<files, pc, call, pending>>

\* list, lines 98-121
List(p, filter) ==
    /\ UNCHANGED <<orchVars, pureVars, svc>>
    /\ pc[p] = "idle"
    /\ \E order \in ReaddirOrders(files) :
        ret' = IF listThrows(files)
               THEN Threw(p, "list", "", ErrSyntax)
               ELSE Returned(p, "list", "", list(files, order, filter))
    /\ UNCHANGED <<files, pc, call, pending>>

\* getLatestStable, lines 179-182
GetLatestStable(p) ==
    /\ UNCHANGED <<orchVars, pureVars, svc>>
    /\ pc[p] = "idle"
    /\ \E order \in ReaddirOrders(files) :
        ret' = IF listThrows(files)
               THEN Threw(p, "getLatestStable", "", ErrSyntax)
               ELSE Returned(p, "getLatestStable", "", getLatestStable(files, order))
    /\ UNCHANGED <<files, pc, call, pending>>

\* generateRecipe, service.ts lines 129-167: the document is fetched or
\* read, the orchestration runs and returns with the validation status
\* given or throws, the recipe passes RecipeSchema.safeParse, and
\* createDraft is called (lines 57-93 of the store) with the time of the
\* call.
GenerateRecipe(p, validation, when) ==
    /\ UNCHANGED <<orchVars, pureVars>>
    /\ pc[p] = "idle"
    /\ ret' = NoReturn
    /\ UNCHANGED files
    /\ IF validation = "threw"
       THEN /\ svc' = ServiceCall("generateRecipe", "threw", "Agent workflow failed.",
                                  "", TRUE, None)
            /\ UNCHANGED <<pc, call, pending>>
       ELSE LET recipe == InputRecipe(None, "fieldsA", "draft",
                                      <<Event("draft", 0, "author", "Initial draft")>>)
                options == Options("undefined",
                                   Some("Recipe generated via orchestration."), when, None)
            IN  /\ \E id \in RandomUUIDs :
                      /\ call' = [call EXCEPT ![p] =
                                      [op |-> "createDraft", recipe |-> Some(recipe),
                                       id |-> id, options |-> Some(options),
                                       seen |-> None]]
                      /\ pending' = [pending EXCEPT ![p] =
                                         Some(DraftRecord(recipe, id, options))]
                /\ pc' = [pc EXCEPT ![p] = "write"]
                /\ svc' = ServiceCall("generateRecipe", "createDraft", "", validation,
                                      TRUE, None)

\* parseDocument, service.ts lines 177-197: getLatestStable, the error when
\* it finds nothing, then the document is fetched or read and the recipe
\* executed on it.
ParseDocument(p) ==
    /\ UNCHANGED <<orchVars, pureVars>>
    /\ pc[p] = "idle"
    /\ \E order \in ReaddirOrders(files) :
        LET stable == getLatestStable(files, order)
        IN  IF listThrows(files)
            THEN /\ ret' = Threw(p, "getLatestStable", "", ErrSyntax)
                 /\ svc' = ServiceCall("parseDocument", "threw", ErrSyntax, "", FALSE, None)
            ELSE /\ ret' = Returned(p, "getLatestStable", "", stable)
                 /\ svc' = IF ~IsSome(stable)
                           THEN ServiceCall("parseDocument", "threw",
                                            "No stable recipe available for execution.",
                                            "", FALSE, None)
                           ELSE ServiceCall("parseDocument", "returned", "", "", TRUE,
                                            stable)
    /\ UNCHANGED <<files, pc, call, pending>>

\* The steps of the store with calls in the slots P and inputs from the
\* given sets.
StoreStep(P, recipes, draftOptions, promoteOptions) ==
    \/ \E p \in P, recipe \in recipes : CreateDraftRejected(p, recipe)
    \/ \E p \in P, recipe \in recipes, options \in draftOptions :
          CreateDraftAccepted(p, recipe, options)
    \/ \E p \in P, id \in Ids, options \in promoteOptions :
          PromoteRejected(p, id, options)
    \/ \E p \in P, id \in Ids, options \in promoteOptions :
          PromoteRead(p, id, options)
    \/ \E p \in P : WriteOpen(p)
    \/ \E p \in P : WriteFinish(p)
    \/ WriterCrash
    \/ \E p \in P, id \in Ids : GetById(p, id)
    \/ \E p \in P, filter \in {"undefined"} \cup LifecycleStates : List(p, filter)
    \/ \E p \in P : GetLatestStable(p)

(***************************************************************************)
(* The agent orchestration (runAgentOrchestrationSlice)                    *)
(***************************************************************************)
\* Bounds of the orchestration model.
\* Largest reading of the clock behind now(), in milliseconds.
MaxClock == 3
\* Largest number of tool invocations one pass runner makes.
MaxToolCalls == 3
\* Largest maxPasses a caller overrides the budget with.
MaxPassesOverride == 4
\* Largest maxToolInvocations a caller overrides the budget with.
MaxToolBudget == 2
\* Largest maxDurationMs a caller overrides the budget with.
MaxDurationOverride == 2

\* createBudget, lines 44-46: the defaults of the budget.
DefaultMaxPasses == 3
DefaultMaxToolInvocations == 48
DefaultMaxDurationMs == 5000
\* runAgentOrchestrationSlice, line 114: the passes the fixed topology needs.
MinPasses == 3

\* A variant of the pass order that synthesizes before it collects.
PassIds_Swapped == <<"pass-2-recipe-synthesis", "pass-1-expected-data", "pass-3-validation">>

PassIds == <<"pass-1-expected-data", "pass-2-recipe-synthesis", "pass-3-validation">>

\* options.budget: every limit may be overridden or left out.
BudgetOverrides ==
    { [maxPasses |-> mp, maxToolInvocations |-> mt, maxDurationMs |-> md] :
        mp \in {None} \cup {Some(n) : n \in 1..MaxPassesOverride},
        mt \in {None} \cup {Some(n) : n \in 0..MaxToolBudget},
        md \in {None} \cup {Some(n) : n \in 0..MaxDurationOverride} }

\* createBudget, lines 43-48
createBudget(startedAt, override) ==
    [maxPasses |-> IF IsSome(override.maxPasses)
                   THEN Get(override.maxPasses) ELSE DefaultMaxPasses,
     maxToolInvocations |-> IF IsSome(override.maxToolInvocations)
                            THEN Get(override.maxToolInvocations)
                            ELSE DefaultMaxToolInvocations,
     maxDurationMs |-> IF IsSome(override.maxDurationMs)
                       THEN Get(override.maxDurationMs) ELSE DefaultMaxDurationMs,
     startedAt |-> startedAt]

\* Error messages of the orchestration, without the values they interpolate.
ErrMinPasses == "Agent orchestration slice requires at least three passes."
ErrPassLimitReached == "Agent orchestration budget exceeded: pass limit reached before pass."
ErrPassLimitExceeded == "Agent orchestration budget exceeded: pass limit was exceeded during pass."
ErrElapsed == "Agent orchestration budget exceeded: elapsed time exceeded limit."
ErrToolInvocations == "Agent orchestration budget exceeded: tool invocations exceeded limit."
ErrSynthesis == "Agent workflow failed."
ErrValidation == "Validation threw."

NoOutcome == [outcome |-> "none", error |-> "", completedAt |-> 0]

\* runAgentOrchestrationSlice, line 114: the run is refused.
\* A variant of the check that lets a budget of two passes through.
tooFewPasses_OffByOne(b) == b.maxPasses < MinPasses - 1

\* runAgentOrchestrationSlice, line 114
tooFewPasses(b) == b.maxPasses < MinPasses

\* ensureDurationWithinLimit, lines 58-65
durationExceeded(b, startedAt, timestamp) == timestamp - startedAt > b.maxDurationMs

\* ensureToolUsageWithinLimit, lines 67-73
toolUsageExceeded(b, total) == total > b.maxToolInvocations

\* A variant of beforePass that counts the pass about to start as executed.
beforePassError_CountsNext(b, startedAt, executed, total, timestamp) ==
    IF executed + 1 >= b.maxPasses THEN ErrPassLimitReached
    ELSE IF durationExceeded(b, startedAt, timestamp) THEN ErrElapsed
    ELSE IF toolUsageExceeded(b, total) THEN ErrToolInvocations
    ELSE ""

\* beforePass, lines 75-86: the error it raises, "" when the pass may start.
beforePassError(b, startedAt, executed, total, timestamp) ==
    IF executed >= b.maxPasses THEN ErrPassLimitReached
    ELSE IF durationExceeded(b, startedAt, timestamp) THEN ErrElapsed
    ELSE IF toolUsageExceeded(b, total) THEN ErrToolInvocations
    ELSE ""

\* A variant of afterPass that leaves out the elapsed-time check.
afterPassError_NoDurationCheck(b, startedAt, executed, total, completedAt) ==
    IF executed > b.maxPasses THEN ErrPassLimitExceeded
    ELSE IF toolUsageExceeded(b, total) THEN ErrToolInvocations
    ELSE ""

\* afterPass, lines 88-100, with the counters already advanced.
afterPassError(b, startedAt, executed, total, completedAt) ==
    IF executed > b.maxPasses THEN ErrPassLimitExceeded
    ELSE IF toolUsageExceeded(b, total) THEN ErrToolInvocations
    ELSE IF durationExceeded(b, startedAt, completedAt) THEN ErrElapsed
    ELSE ""

\* A variant of the status that never marks a pass as failed.
passStatus_AlwaysSuccess(id, resultStatus) == "success"

\* executePass, line 145: the status of a pass summary.
passStatus(id, resultStatus) ==
    IF id = "pass-3-validation" /\ resultStatus = "fail" THEN "failure" ELSE "success"

OrchInit ==
    /\ clock = 0
    /\ ostate = "idle"
    /\ budget = createBudget(0, [maxPasses |-> None, maxToolInvocations |-> None,
                                 maxDurationMs |-> None])
    /\ start = 0
    /\ ruleSet = FALSE
    /\ executedPasses = 0
    /\ totalToolInvocations = 0
    /\ usageLog = 0
    /\ passIndex = 1
    /\ started = 0
    /\ generatedArtifacts = FALSE
    /\ passes = <<>>
    /\ oresult = NoOutcome

\* Time passes between any two steps.
Tick ==
    /\ UNCHANGED <<storeVars, pureVars, svc>>
    /\ clock < MaxClock
    /\ clock' = clock + 1
    /\ UNCHANGED <<ostate, budget, start, ruleSet, executedPasses, totalToolInvocations,
                   usageLog, passIndex, started, generatedArtifacts, passes, oresult>>

\* runAgentOrchestrationSlice, lines 108-116: the budget asks for fewer than
\* three passes and the call throws.
OrchRefused(override) ==
    /\ UNCHANGED <<storeVars, pureVars, svc>>
    /\ ostate = "idle"
    /\ tooFewPasses(createBudget(clock, override))
    /\ start' = clock
    /\ budget' = createBudget(clock, override)
    /\ ostate' = "threw"
    /\ oresult' = [outcome |-> "threw", error |-> ErrMinPasses, completedAt |-> 0]
    /\ UNCHANGED <<clock, ruleSet, executedPasses, totalToolInvocations, usageLog,
                   passIndex, started, generatedArtifacts, passes>>

\* runAgentOrchestrationSlice, lines 108-118: the run starts and asks the
\* rule repository for the document's rule set.
OrchStart(override) ==
    /\ UNCHANGED <<storeVars, pureVars, svc>>
    /\ ostate = "idle"
    /\ ~tooFewPasses(createBudget(clock, override))
    /\ start' = clock
    /\ budget' = createBudget(clock, override)
    /\ ostate' = "lookup"
    /\ UNCHANGED <<clock, ruleSet, executedPasses, totalToolInvocations, usageLog,
                   passIndex, started, generatedArtifacts, passes, oresult>>

\* line 118: getRuleSet resolves, with a rule set or with none.
RuleLookup(matched) ==
    /\ UNCHANGED <<storeVars, pureVars, svc>>
    /\ ostate = "lookup"
    /\ ruleSet' = matched
    /\ ostate' = "before"
    /\ passIndex' = 1
    /\ UNCHANGED <<clock, budget, start, executedPasses, totalToolInvocations, usageLog,
                   started, generatedArtifacts, passes, oresult>>

\* executePass, line 138: beforePass raises a budget error.
BeforePassThrows ==
    /\ UNCHANGED <<storeVars, pureVars, svc>>
    /\ ostate = "before"
    /\ beforePassError(budget, start, executedPasses, totalToolInvocations, clock) # ""
    /\ ostate' = "threw"
    /\ oresult' = [outcome |-> "threw",
                   error |-> beforePassError(budget, start, executedPasses,
                                             totalToolInvocations, clock),
                   completedAt |-> 0]
    /\ UNCHANGED <<clock, budget, start, ruleSet, executedPasses, totalToolInvocations,
                   usageLog, passIndex, started, generatedArtifacts, passes>>

\* executePass, lines 138-140: the pass may start; the usage log is reset and
\* the runner is called.
BeforePass ==
    /\ UNCHANGED <<storeVars, pureVars, svc>>
    /\ ostate = "before"
    /\ beforePassError(budget, start, executedPasses, totalToolInvocations, clock) = ""
    /\ started' = clock
    /\ usageLog' = 0
    /\ ostate' = "running"
    /\ UNCHANGED <<clock, budget, start, ruleSet, executedPasses, totalToolInvocations,
                   passIndex, generatedArtifacts, passes, oresult>>

\* The runner of the pass uses the toolset: collectExpectedData (rule set)
\* or synthesizeRecipeWithAgent (no rule set, not yet generated), both
\* called by the pass 1 runner. Every call appends to the usage log.
RunnerUsesTools ==
    passIndex = 1 \/ (~ruleSet /\ ~generatedArtifacts)

ToolInvoke ==
    /\ UNCHANGED <<storeVars, pureVars, svc>>
    /\ ostate = "running"
    /\ RunnerUsesTools
    /\ usageLog < MaxToolCalls
    /\ usageLog' = usageLog + 1
    /\ UNCHANGED <<clock, ostate, budget, start, ruleSet, executedPasses,
                   totalToolInvocations, passIndex, started, generatedArtifacts, passes,
                   oresult>>

\* The runner of the pass throws: synthesizeRecipeWithAgent (no title, no
\* images, no selector for a field) or validateRecipeAgainstDocument (an
\* extraction or a transform throws); the orchestration rejects with it.
RunnerThrows ==
    /\ UNCHANGED <<storeVars, pureVars, svc>>
    /\ ostate = "running"
    /\ (~ruleSet /\ ~generatedArtifacts) \/ passIndex = 3
    /\ ostate' = "threw"
    /\ oresult' = [outcome |-> "threw",
                   error |-> IF passIndex = 3 THEN ErrValidation ELSE ErrSynthesis,
                   completedAt |-> 0]
    /\ UNCHANGED <<clock, budget, start, ruleSet, executedPasses, totalToolInvocations,
                   usageLog, passIndex, started, generatedArtifacts, passes>>

\* synthesizeRecipeWithAgent, lines 458-459: its first tool calls read the
\* OCR transcript and list the chunks; every later call is an html.query of
\* the selector derivation (deriveSelector, findMatchingSelector).
SeedCalls == 2

\* synthesizeRecipeWithAgent, lines 588, 698, 793: the iterations it records.
IterationsLogged == 3

\* The tool calls of a usage log of the agent workflow that derive selectors.
derivationCalls(usage) == IF usage > SeedCalls THEN usage - SeedCalls ELSE 0

\* The least number of tool calls the runner makes before it returns:
\* synthesizeRecipeWithAgent reads the OCR transcript, lists the chunks and
\* needs at least one html.query to derive the title selector.
MinRunnerCalls == IF ~ruleSet /\ ~generatedArtifacts THEN SeedCalls + 1 ELSE 0

\* The origin tag of the result of a pass runner: collectExpectedData tags
\* 'rule-set', synthesizeRecipeWithAgent tags both summaries 'agent',
\* buildRecipeFromRuleSet and validateRecipeAgainstDocument return no origin.
resultOrigin(id, matched) ==
    IF id = "pass-1-expected-data" THEN (IF matched THEN "rule-set" ELSE "agent")
    ELSE IF id = "pass-2-recipe-synthesis" /\ ~matched THEN "agent"
    ELSE "undefined"

\* The length of the iterations log of the result of a pass runner, None
\* when the result has no iterations property.
resultIterations(id, matched) ==
    IF id = "pass-2-recipe-synthesis" /\ ~matched THEN Some(IterationsLogged) ELSE None

\* executePass, lines 140-155: the runner returned; afterPass advances the
\* counters and checks the limits; the summary is built.
AfterPass(resultStatus) ==
    /\ UNCHANGED <<storeVars, pureVars, svc>>
    /\ ostate = "running"
    /\ usageLog >= MinRunnerCalls
    /\ (passIndex # 3 => resultStatus = "pass")
    /\ executedPasses' = executedPasses + 1
    /\ totalToolInvocations' = totalToolInvocations + usageLog
    /\ generatedArtifacts' = (generatedArtifacts \/ ~ruleSet)
    /\ LET error == afterPassError(budget, start, executedPasses + 1,
                                   totalToolInvocations + usageLog, clock)
       IN  IF error # ""
           THEN /\ ostate' = "threw"
                /\ oresult' = [outcome |-> "threw", error |-> error, completedAt |-> 0]
                /\ UNCHANGED <<passes, passIndex>>
           ELSE /\ passes' = Append(passes,
                                    [id |-> PassIds[passIndex],
                                     status |-> passStatus(PassIds[passIndex], resultStatus),
                                     startedAt |-> started,
                                     completedAt |-> clock,
                                     toolUsage |-> usageLog,
                                     result |-> resultStatus,
                                     origin |-> resultOrigin(PassIds[passIndex], ruleSet),
                                     iterations |->
                                         resultIterations(PassIds[passIndex], ruleSet)])
                /\ IF passIndex < 3
                   THEN passIndex' = passIndex + 1 /\ ostate' = "before"
                   ELSE passIndex' = passIndex /\ ostate' = "finishing"
                /\ UNCHANGED oresult
    /\ UNCHANGED <<clock, budget, start, ruleSet, usageLog, started>>

\* runAgentOrchestrationSlice, lines 206-222: the result is returned.
OrchReturn ==
    /\ UNCHANGED <<storeVars, pureVars, svc>>
    /\ ostate = "finishing"
    /\ ostate' = "returned"
    /\ oresult' = [outcome |-> "returned", error |-> "", completedAt |-> clock]
    /\ UNCHANGED <<clock, budget, start, ruleSet, executedPasses, totalToolInvocations,
                   usageLog, passIndex, started, generatedArtifacts, passes>>

OrchStep ==
    \/ Tick
    \/ \E override \in BudgetOverrides : OrchRefused(override)
    \/ \E override \in BudgetOverrides : OrchStart(override)
    \/ \E matched \in BOOLEAN : RuleLookup(matched)
    \/ BeforePassThrows
    \/ BeforePass
    \/ ToolInvoke
    \/ RunnerThrows
    \/ \E resultStatus \in {"pass", "fail"} : AfterPass(resultStatus)
    \/ OrchReturn

(***************************************************************************)
(* Comparison of monetary values (compareMoney)                            *)
(***************************************************************************)
\* MoneySchema: the largest precision of a monetary value.
MaxPrecision == 4

\* Rational numbers num/den with den > 0: the numbers of the comparison.
Rat(n, d) == [num |-> n, den |-> d]
RatLeq(a, b) == a.num * b.den <= b.num * a.den
RatEq(a, b) == a.num * b.den = b.num * a.den
RECURSIVE GCD(_, _)
GCD(a, b) == IF b = 0 THEN a ELSE GCD(b, a % b)
Reduce(a) ==
    LET g == GCD(IF a.num < 0 THEN -a.num ELSE a.num, a.den)
    IN  Rat(a.num \div g, a.den \div g)
RatAdd(a, b) == Reduce(Rat(a.num * b.den + b.num * a.den, a.den * b.den))
OneMinus(a) == Rat(a.den - a.num, a.den)
Abs(n) == IF n < 0 THEN -n ELSE n

RECURSIVE Pow10(_)
Pow10(p) == IF p = 0 THEN 1 ELSE 10 * Pow10(p - 1)

\* A Money value; amount counts units of 10^-MaxPrecision.
Money(amount, precision) == [amount |-> amount, precision |-> precision]

\* clampConfidence, lines 25-30
clampConfidence(value) ==
    IF value.num < 0 THEN Rat(0, 1)
    ELSE IF value.num > value.den THEN Rat(1, 1)
    ELSE value

\* toMinorUnits, lines 79-82: Math.round(amount * 10 ** precision), the
\* nearest integer, a half rounded up.
toMinorUnits(money) ==
    LET n == money.amount * Pow10(money.precision)
        d == Pow10(MaxPrecision)
    IN  (2 * n + d) \div (2 * d)

\* A money tolerance; a limit left out of the tolerance is None.
MoneyTolerance(maxAbsoluteMinorUnits, maxRelativeDifference) ==
    [maxAbsoluteMinorUnits |-> maxAbsoluteMinorUnits,
     maxRelativeDifference |-> maxRelativeDifference]

\* A variant of compareMoney that checks the minor-unit delta only.
compareMoney_AbsoluteOnly(expected, actual, tolerance) ==
    LET diffMinor == Abs(toMinorUnits(expected) - toMinorUnits(actual))
        relative == IF expected.amount = 0 THEN Rat(0, 1)
                    ELSE Rat(Abs(expected.amount - actual.amount), expected.amount)
        pass == diffMinor <= (IF IsSome(tolerance.maxAbsoluteMinorUnits)
                              THEN Get(tolerance.maxAbsoluteMinorUnits) ELSE 0)
    IN  [status |-> IF pass THEN "pass" ELSE "fail",
         confidence |-> clampConfidence(OneMinus(relative)),
         diffMinor |-> diffMinor,
         relative |-> relative]

\* compareMoney, lines 222-240
compareMoney(expected, actual, tolerance) ==
    LET expectedMinor == toMinorUnits(expected)
        actualMinor == toMinorUnits(actual)
        diffMinor == Abs(expectedMinor - actualMinor)
        relative == IF expected.amount = 0 THEN Rat(0, 1)
                    ELSE Rat(Abs(expected.amount - actual.amount), expected.amount)
        withinAbsolute == diffMinor <= (IF IsSome(tolerance.maxAbsoluteMinorUnits)
                                        THEN Get(tolerance.maxAbsoluteMinorUnits) ELSE 0)
        withinRelative == RatLeq(relative,
                                 IF IsSome(tolerance.maxRelativeDifference)
                                 THEN Get(tolerance.maxRelativeDifference) ELSE Rat(0, 1))
        pass == withinAbsolute /\ withinRelative
    IN  [status |-> IF pass THEN "pass" ELSE "fail",
         confidence |-> clampConfidence(OneMinus(relative)),
         diffMinor |-> diffMinor,
         relative |-> relative]

\* The arguments of compareMoney: amounts in units of 10^-4 (0, 0.0049,
\* 0.005, 0.01, 0.015, 0.1, 0.11, 1), precisions, and tolerances with each
\* limit present or left out; and the prices 149.00, 149.01 and 149.02 of
\* precision 2 against the expected price 149.00.
MoneyInputs ==
    LET amounts == {0, 49, 50, 100, 150, 1000, 1100, 10000}
        precisions == {0, 2, MaxPrecision}
        tolerances ==
            { MoneyTolerance(a, r) :
                a \in {None, Some(0), Some(1), Some(10)},
                r \in {None, Some(Rat(0, 1)), Some(Rat(1, 10)), Some(Rat(1, 1))} }
    IN  { [expected |-> Money(ea, ep), actual |-> Money(aa, ap), tolerance |-> t] :
            ea \in amounts, ep \in precisions, aa \in amounts, ap \in precisions,
            t \in tolerances }
        \cup
        { [expected |-> Money(1490000, 2), actual |-> Money(aa, 2), tolerance |-> t] :
            aa \in {1490000, 1490100, 1490200}, t \in tolerances }

NoComparison ==
    [status |-> "none", confidence |-> Rat(0, 1), diffMinor |-> 0, relative |-> Rat(0, 1)]

\* compareMoney is called with the arguments drawn at the start.
CompareMoney ==
    /\ mresult = NoComparison
    /\ mresult' = compareMoney(minput.expected, minput.actual, minput.tolerance)
    /\ UNCHANGED <<svc, storeVars, orchVars, minput, vinput, vresult, tinput, tresult,
                   xinput, xout, sinput, sresult>>

(***************************************************************************)
(* Validation of a recipe against a document                               *)
(* (validateRecipeAgainstDocument)                                         *)
(***************************************************************************)
\* recipe.target.fields, in the order the synthesis emits them.
ValidationFields == <<"title", "brand", "price", "canonicalUrl", "images">>

\* REQUIRED_FIELDS, line 23
REQUIRED_FIELDS == <<"title", "canonicalUrl", "price", "images">>

\* What the recipe and the document hold for one field:
\*   "equal"    a css step selects an element with the expected value
\*   "near"     a css step selects an element whose value is close to it
\*   "differs"  a css step selects an element with another value
\*   "absent"   a css step selects nothing: the element is not in the document
\*   "xpath"    the first step has strategy xpath and a value (such as h1)
\*              that also reads as a css selector of the expected element
\*   "xpath-unparsable"  the first step has strategy xpath and a value (such
\*              as //h1) that is not a css selector
\*   "omitted"  the recipe has no field for it
ValidationInputs ==
    { c \in [{"title", "canonicalUrl", "price", "images", "brand"} ->
                {"equal", "near", "differs", "absent", "xpath", "xpath-unparsable",
                 "omitted"}] :
        c["brand"] \in {"equal", "near", "absent", "omitted"} }

\* The values of an extraction.
Undefined == [kind |-> "undefined", tag |-> ""]
EmptyString == [kind |-> "empty", tag |-> ""]
EmptyList == [kind |-> "emptyList", tag |-> ""]
Present(tag) == [kind |-> "value", tag |-> tag]

\* The strategy of the first selector step of the field.
stepStrategy(case) == IF case \in {"xpath", "xpath-unparsable"} THEN "xpath" ELSE "css"

\* The transform of the field: text.collapse for texts, url.resolve for
\* urls, money.parse for the price.
transformOf(field) ==
    IF field = "price" THEN "money.parse"
    ELSE IF field \in {"canonicalUrl", "images"} THEN "url.resolve"
    ELSE "text.collapse"

\* extractFieldValue, lines 444-519: the value it returns. extractSingle
\* yields '' and extractAll [] when the selection is empty (lines 470-495).
extractFieldValue(field, case) ==
    IF case = "absent" THEN (IF field = "images" THEN EmptyList ELSE EmptyString)
    ELSE IF case = "near" THEN Present("near")
    ELSE IF case = "differs" THEN Present("far")
    ELSE Present("expected")

\* extractFieldValue, lines 444-519: the error it throws, "" when it
\* returns. $(firstStep.value), line 466, hands the value of the step to
\* the css engine whatever the strategy is, and a value that is not a css
\* selector makes it throw. applyTransforms, lines 178-185, then transforms
\* the selected value (a list entry by entry): money.parse throws on a
\* string without a number, url.resolve on an empty string.
extractError(field, case) ==
    IF case = "xpath-unparsable" THEN "SyntaxError: selector"
    ELSE IF extractFieldValue(field, case) # EmptyString THEN ""
    ELSE IF transformOf(field) = "money.parse" THEN "Unable to parse monetary value"
    ELSE IF transformOf(field) = "url.resolve"
         THEN "url.resolve cannot operate on an empty string"
    ELSE ""

\* The expected price and the extracted ones, in units of 10^-4 (1.00,
\* 1.004, 1.25).
PriceValue(tag) ==
    IF tag = "near" THEN Money(10040, 2)
    ELSE IF tag = "far" THEN Money(12500, 2)
    ELSE Money(10000, 2)

\* DEFAULT_TOLERANCES: the money tolerance of the price (1 minor unit, no
\* relative difference), maxDistanceRatio of title (0) and brand (0.05).
DEFAULT_TOLERANCES(field) ==
    IF field = "price" THEN MoneyTolerance(Some(1), Some(Rat(0, 1)))
    ELSE IF field = "brand" THEN [maxDistanceRatio |-> Rat(1, 20)]
    ELSE [maxDistanceRatio |-> Rat(0, 1)]

\* The Levenshtein ratio of a text to the expected text.
DistanceRatio(tag) ==
    IF tag = "near" THEN Rat(1, 20) ELSE IF tag = "far" THEN Rat(1, 2) ELSE Rat(0, 1)

\* compareText, lines 199-220, from the ratio on.
compareText(ratio, maxDistanceRatio) ==
    [status |-> IF RatLeq(ratio, maxDistanceRatio) THEN "pass" ELSE "fail",
     confidence |-> clampConfidence(OneMinus(ratio))]

\* compareUrl, lines 242-260: a near url differs in what the normalization
\* removes.
compareUrl(tag) ==
    [status |-> IF tag # "far" THEN "pass" ELSE "fail",
     confidence |-> IF tag # "far" THEN Rat(1, 1) ELSE Rat(0, 1)]

\* compareImageArray, lines 262-280: of two expected images a differing
\* list holds one.
compareImageArray(tag) ==
    [status |-> IF tag # "far" THEN "pass" ELSE "fail",
     confidence |-> clampConfidence(IF tag # "far" THEN Rat(2, 2) ELSE Rat(1, 2))]

\* compareWithTolerance, lines 339-426
compareWithTolerance(field, tag) ==
    IF field = "price"
    THEN LET c == compareMoney(PriceValue("expected"), PriceValue(tag),
                               DEFAULT_TOLERANCES(field))
         IN  [status |-> c.status, confidence |-> c.confidence]
    ELSE IF field = "canonicalUrl" THEN compareUrl(tag)
    ELSE IF field = "images" THEN compareImageArray(tag)
    ELSE compareText(DistanceRatio(tag), DEFAULT_TOLERANCES(field).maxDistanceRatio)

\* The stop reason of a validation result: its text before the colon and
\* the fields it names.
StopReason(kind, fields) == [kind |-> kind, fields |-> fields]
NoStopReason == StopReason("undefined", <<>>)

FieldResult(field, status, confidence) ==
    [fieldId |-> field, status |-> status, confidence |-> confidence]

\* What a call of validateRecipeAgainstDocument did: the result it returned
\* or the error it threw, whether ProductSchema.parse ran and whether the
\* fields were compared with their tolerances.
ValidationReturned(status, confidence, fieldResults, stopReason, parsed, compared) ==
    [outcome |-> "returned", error |-> "", status |-> status, confidence |-> confidence,
     fieldResults |-> fieldResults, stopReason |-> stopReason,
     schemaValidated |-> parsed, toleranceScored |-> compared]

ValidationThrew(error) ==
    [outcome |-> "threw", error |-> error, status |-> "", confidence |-> Rat(0, 1),
     fieldResults |-> <<>>, stopReason |-> NoStopReason,
     schemaValidated |-> FALSE, toleranceScored |-> FALSE]

NoValidation ==
    [outcome |-> "none", error |-> "", status |-> "", confidence |-> Rat(0, 1),
     fieldResults |-> <<>>, stopReason |-> NoStopReason,
     schemaValidated |-> FALSE, toleranceScored |-> FALSE]

\* The fields of the recipe, in order.
recipeFields(cases) == SelectSeq(ValidationFields, LAMBDA f : cases[f] # "omitted")

\* extractedValues.get(fieldId), lines 531-534
extractedValue(cases, field) ==
    IF cases[field] = "omitted" THEN Undefined ELSE extractFieldValue(field, cases[field])

\* lines 536-542: a required field without a value.
isMissingRequired(value) == value.kind \in {"emptyList", "undefined", "empty"}

\* ProductSchema.parse, lines 595-610: it rejects an empty brand (brand is
\* nonEmptyString.optional()); the required values are present and typed.
schemaRejects(cases) == extractedValue(cases, "brand") = EmptyString

RECURSIVE SumConfidence(_)
SumConfidence(results) ==
    IF results = <<>> THEN Rat(0, 1)
    ELSE RatAdd(results[1].confidence, SumConfidence(Tail(results)))

\* A variant of the mean that forgets to divide by the number of fields.
meanConfidence_Total(results) == clampConfidence(SumConfidence(results))

\* lines 627-628: totalConfidence / Math.max(fieldResults.length, 1)
meanConfidence(results) ==
    LET total == SumConfidence(results)
        count == IF Len(results) > 1 THEN Len(results) ELSE 1
    IN  clampConfidence(Reduce(Rat(total.num, total.den * count)))

\* lines 536-542
missingRequiredFields(cases) ==
    SelectSeq(REQUIRED_FIELDS, LAMBDA f : isMissingRequired(extractedValue(cases, f)))

\* lines 630-637: the first failed result of title or price.
criticalFailures(results) ==
    SelectSeq(results, LAMBDA r : r.status = "fail" /\ r.fieldId \in {"title", "price"})

\* lines 531-534: the errors the extraction loop would throw, in field order.
extractionErrors(cases) ==
    LET fields == recipeFields(cases)
        at == SelectSeq(fields, LAMBDA f : extractError(f, cases[f]) # "")
    IN  [i \in 1..Len(at) |-> extractError(at[i], cases[at[i]])]

\* validateRecipeAgainstDocument, lines 527-646
validateRecipeAgainstDocument(cases) ==
    LET fields == recipeFields(cases)
        errors == extractionErrors(cases)
        missingRequired == missingRequiredFields(cases)
    IN  IF errors # <<>> THEN ValidationThrew(errors[1])
        ELSE IF missingRequired # <<>>
        THEN ValidationReturned(
                 "fail", Rat(0, 1),
                 [i \in 1..Len(fields) |->
                     IF extractedValue(cases, fields[i]).kind \in {"undefined", "empty"}
                     THEN FieldResult(fields[i], "fail", Rat(0, 1))
                     ELSE FieldResult(fields[i], "pass", Rat(1, 2))],
                 StopReason("Missing required fields", missingRequired), FALSE, FALSE)
        ELSE IF schemaRejects(cases)
        THEN ValidationReturned("fail", Rat(0, 1), <<>>,
                                StopReason("Schema validation failed", <<>>), TRUE, FALSE)
        ELSE LET fieldResults ==
                     [i \in 1..Len(fields) |->
                         LET c == compareWithTolerance(
                                      fields[i], extractedValue(cases, fields[i]).tag)
                         IN  FieldResult(fields[i], c.status, c.confidence)]
                 critical == criticalFailures(fieldResults)
                 status == IF \A i \in 1..Len(fieldResults) : fieldResults[i].status = "pass"
                           THEN "pass" ELSE "fail"
             IN  ValidationReturned(
                     status, meanConfidence(fieldResults), fieldResults,
                     IF status = "fail" /\ critical # <<>>
                     THEN StopReason("Critical field failed validation",
                                     <<critical[1].fieldId>>)
                     ELSE NoStopReason,
                     TRUE, TRUE)

\* validateRecipeAgainstDocument is called with the arguments drawn at the
\* start.
Validate ==
    /\ vresult = NoValidation
    /\ vresult' = validateRecipeAgainstDocument(vinput)
    /\ UNCHANGED <<svc, storeVars, orchVars, minput, mresult, vinput, tinput, tresult,
                   xinput, xout, sinput, sresult>>

(***************************************************************************)
(* Comparison of texts (compareText)                                       *)
(***************************************************************************)
\* The longest text compared.
MaxTextLen == 2

\* A variant of normalizeText that never lowercases.
normalizeText_NoLowercase(value, options) ==
    LET isSpace(c) == c \in {" ", "\t"}
        inner == {i \in 1..Len(value) : ~isSpace(value[i])}
        trimmed == IF ~options.trim THEN value
                   ELSE IF inner = {} THEN <<>>
                   ELSE SubSeq(value, CHOOSE i \in inner : \A k \in inner : i <= k,
                                      CHOOSE i \in inner : \A k \in inner : i >= k)
        collapsed[i \in 0..Len(trimmed)] ==
            IF i = 0 THEN <<>>
            ELSE IF ~isSpace(trimmed[i]) THEN Append(collapsed[i - 1], trimmed[i])
            ELSE IF i > 1 /\ isSpace(trimmed[i - 1]) THEN collapsed[i - 1]
            ELSE Append(collapsed[i - 1], " ")
    IN  collapsed[Len(trimmed)]

\* normalizeText, lines 58-62: value.trim() when options.trim, every run of
\* white space replaced by one space, toLowerCase() unless caseSensitive.
\* A text is a sequence of characters.
normalizeText(value, options) ==
    LET isSpace(c) == c \in {" ", "\t"}
        inner == {i \in 1..Len(value) : ~isSpace(value[i])}
        trimmed == IF ~options.trim THEN value
                   ELSE IF inner = {} THEN <<>>
                   ELSE SubSeq(value, CHOOSE i \in inner : \A k \in inner : i <= k,
                                      CHOOSE i \in inner : \A k \in inner : i >= k)
        collapsed[i \in 0..Len(trimmed)] ==
            IF i = 0 THEN <<>>
            ELSE IF ~isSpace(trimmed[i]) THEN Append(collapsed[i - 1], trimmed[i])
            ELSE IF i > 1 /\ isSpace(trimmed[i - 1]) THEN collapsed[i - 1]
            ELSE Append(collapsed[i - 1], " ")
        text == collapsed[Len(trimmed)]
    IN  IF options.caseSensitive THEN text
        ELSE [i \in 1..Len(text) |-> IF text[i] = "A" THEN "a" ELSE text[i]]

\* levenshteinDistance, lines 32-56: the matrix filled row by row.
levenshteinDistance(a, b) ==
    LET matrix[i \in 0..Len(a), j \in 0..Len(b)] ==
            IF j = 0 THEN i
            ELSE IF i = 0 THEN j
            ELSE IF a[i] = b[j] THEN matrix[i - 1, j - 1]
            ELSE LET diagonal == matrix[i - 1, j - 1]
                     up == matrix[i - 1, j]
                     left == matrix[i, j - 1]
                     least == IF diagonal <= up /\ diagonal <= left THEN diagonal
                              ELSE IF up <= left THEN up ELSE left
                 IN  least + 1
    IN  matrix[Len(a), Len(b)]

\* compareText, lines 199-214: the ratio of the distance of the normalized
\* texts to the length of the longer one.
distanceRatio(expected, actual, tolerance) ==
    LET options == [trim |-> tolerance.trim, caseSensitive |-> tolerance.caseSensitive]
        normalizedExpected == normalizeText(expected, options)
        normalizedActual == normalizeText(actual, options)
        distance == levenshteinDistance(normalizedExpected, normalizedActual)
        longer == IF Len(normalizedExpected) >= Len(normalizedActual)
                  THEN Len(normalizedExpected) ELSE Len(normalizedActual)
        maxLength == IF longer >= 1 THEN longer ELSE 1
    IN  Rat(distance, maxLength)

\* The texts compared: letters in both cases, a space and a tab; the
\* tolerances are those TextToleranceSchema admits.
TextInputs ==
    LET texts == UNION {[1..n -> {"a", "A", " ", "\t"}] : n \in 0..MaxTextLen}
    IN  { [expected |-> e, actual |-> a,
           tolerance |-> [trim |-> t, caseSensitive |-> c, maxDistanceRatio |-> r]] :
            e \in texts, a \in texts, t \in BOOLEAN, c \in BOOLEAN,
            r \in {Rat(0, 1), Rat(1, 2), Rat(1, 1)} }

\* compareText is called with the arguments drawn at the start.
CompareText ==
    /\ tresult.status = "none"
    /\ tresult' = compareText(distanceRatio(tinput.expected, tinput.actual, tinput.tolerance),
                              tinput.tolerance.maxDistanceRatio)
    /\ UNCHANGED <<svc, storeVars, orchVars, minput, mresult, vinput, vresult, tinput,
                   xinput, xout, sinput, sresult>>

(***************************************************************************)
(* Replay of a recipe on a document (executeRecipe)                        *)
(***************************************************************************)
\* The most calls of executeRecipe looked at.
MaxExecutions == 2

\* The field recipes of the recipe replayed.
ExecutionFields == {"title", "canonicalUrl", "price", "images", "aggregateRating"}

\* The documents and recipes replayed: for every field the document holds
\* the element ("equal") or not ("absent"); recipe.target.fields holds the
\* field recipes in any order.
ExecutionInputs ==
    { [html |-> h, fields |-> f] :
        h \in [ExecutionFields -> {"equal", "absent"}],
        f \in {g \in [1..Cardinality(ExecutionFields) -> ExecutionFields] :
                  \A i, j \in DOMAIN g : g[i] = g[j] => i = j} }

\* extractAggregateRating, execute.ts lines 52-87: undefined without the
\* rating container; the url is set when a canonical url is given.
extractAggregateRating(html, canonical) ==
    IF html["aggregateRating"] = "absent" THEN Undefined
    ELSE IF canonical THEN Present("rating with url")
    ELSE Present("rating")

\* A variant of executeRecipe whose values depend on the time of the call.
executeRecipe_ReadsClock(html, fields) ==
    [outcome |-> "returned", error |-> "",
     product |-> <<[f \in ExecutionFields |->
                       Present(IF clock = 0 THEN "expected" ELSE "far")]>>]

\* executeRecipe, execute.ts lines 187-229: the loop over
\* recipe.target.fields with the values extracted so far as context, the
\* check of the required fields, ProductSchema.parse.
executeRecipe(html, fields) ==
    LET threw(error) == [outcome |-> "threw", error |-> error, product |-> <<>>]
        failing == {i \in DOMAIN fields :
                       /\ fields[i] # "aggregateRating"
                       /\ extractError(fields[i], html[fields[i]]) # ""}
        first == CHOOSE i \in failing : \A k \in failing : i <= k
        value(i) ==
            IF fields[i] = "aggregateRating"
            THEN extractAggregateRating(
                     html, \E k \in 1..(i - 1) : fields[k] = "canonicalUrl")
            ELSE extractFieldValue(fields[i], html[fields[i]])
        values == [f \in ExecutionFields |->
                      IF \E i \in DOMAIN fields : fields[i] = f
                      THEN value(CHOOSE i \in DOMAIN fields : fields[i] = f)
                      ELSE Undefined]
        missing == SelectSeq(REQUIRED_FIELDS,
                             LAMBDA f : values[f] \in {Undefined, EmptyList})
    IN  IF failing # {}
        THEN threw(extractError(fields[first], html[fields[first]]))
        ELSE IF missing # <<>> THEN threw("Missing required field " \o missing[1])
        ELSE IF values["title"] = EmptyString THEN threw("ZodError")
        ELSE [outcome |-> "returned", error |-> "", product |-> <<values>>]

\* One call of executeRecipe with the html and the recipe drawn at the start.
ExecuteRecipe ==
    /\ Len(xout) < MaxExecutions
    /\ xout' = Append(xout, executeRecipe(xinput.html, xinput.fields))
    /\ UNCHANGED <<svc, storeVars, orchVars, minput, mresult, vinput, vresult, tinput, tresult,
                   xinput, sinput, sresult>>

(***************************************************************************)
(* Heuristic synthesis of a recipe (synthesizeRecipeWithAgent)             *)
(***************************************************************************)
\* synthesizeRecipeWithAgent, part_009 lines 588, 698, 793: the field recipes
\* in the order recordIteration puts them into the fieldRecipes map.
SynthesisFields ==
    <<"title", "brand", "price", "canonicalUrl", "description", "images", "thumbnail",
      "aggregateRating", "breadcrumbs", "sku">>

\* A variant of the synthesis that leaves out an optional field whose
\* selector it cannot derive and goes on with the next field.
synthesizeRecipeWithAgent_SkipsOptional(document) ==
    LET optional == {"brand", "description", "aggregateRating", "breadcrumbs", "sku"}
        underived == {i \in DOMAIN SynthesisFields :
                         /\ SynthesisFields[i] \notin optional
                         /\ document[SynthesisFields[i]] # "derived"}
        first == CHOOSE i \in underived : \A k \in underived : i <= k
    IN  IF underived # {}
        THEN [outcome |-> "threw", fields |-> <<>>,
              error |-> [message |-> "Agent workflow failed to derive a selector for",
                         names |-> {SynthesisFields[first]}]]
        ELSE [outcome |-> "returned",
              fields |-> SelectSeq(SynthesisFields, LAMBDA f : document[f] = "derived"),
              error |-> [message |-> "", names |-> {}]]

\* synthesizeRecipeWithAgent, part_009 lines 449-903. For every field the
\* document lets deriveSelector (387-442) find a selector ("derived") or not
\* ("noSelector", the throw of line 441), or gives a selector whose value is
\* not usable ("invalid"): images without a resolvable source throw at
\* 668-670, the other values fail ProductSchema.parse (811-826), whose
\* ZodError lists the paths of all failing fields. The fields of the
\* returned recipe are the values of the fieldRecipes map (828).
synthesizeRecipeWithAgent(document) ==
    LET threw(message, names) ==
            [outcome |-> "threw", fields |-> <<>>,
             error |-> [message |-> message, names |-> names]]
        underived == {i \in DOMAIN SynthesisFields :
                         \/ document[SynthesisFields[i]] = "noSelector"
                         \/ /\ SynthesisFields[i] = "images"
                            /\ document["images"] = "invalid"}
        first == CHOOSE i \in underived : \A k \in underived : i <= k
        invalid == {SynthesisFields[i] : i \in {k \in DOMAIN SynthesisFields :
                                                  document[SynthesisFields[k]] = "invalid"}}
    IN  IF underived # {}
        THEN IF document[SynthesisFields[first]] = "noSelector"
             THEN threw("Agent workflow failed to derive a selector for",
                        {SynthesisFields[first]})
             ELSE threw("Agent workflow failed to locate gallery", {"images"})
        ELSE IF invalid # {} THEN threw("ZodError", invalid)
        ELSE [outcome |-> "returned", fields |-> SynthesisFields,
              error |-> [message |-> "", names |-> {}]]

\* One call of synthesizeRecipeWithAgent with the document drawn at the start.
SynthesizeRecipe ==
    /\ sresult.outcome = "none"
    /\ sresult' = synthesizeRecipeWithAgent(sinput)
    /\ UNCHANGED <<svc, storeVars, orchVars, minput, mresult, vinput, vresult, tinput,
                   tresult, xinput, xout, sinput>>

\* Before a call of the pure function named by called, made with any
\* arguments; a call that is not looked at has fixed arguments.
PureInit(called) ==
    /\ minput \in IF called = "compareMoney" THEN MoneyInputs
                  ELSE {[expected |-> Money(0, 2), actual |-> Money(0, 2),
                         tolerance |-> MoneyTolerance(None, None)]}
    /\ mresult = NoComparison
    /\ vinput \in IF called = "validateRecipeAgainstDocument" THEN ValidationInputs
                  ELSE {[f \in {"title", "canonicalUrl", "price", "images", "brand"} |->
                            "equal"]}
    /\ vresult = NoValidation
    /\ tinput \in IF called = "compareText" THEN TextInputs
                  ELSE {[expected |-> <<>>, actual |-> <<>>,
                         tolerance |-> [trim |-> TRUE, caseSensitive |-> FALSE,
                                        maxDistanceRatio |-> Rat(0, 1)]]}
    /\ tresult = [status |-> "none", confidence |-> Rat(0, 1)]
    /\ xinput \in IF called = "executeRecipe" THEN ExecutionInputs
                  ELSE {[html |-> [f \in ExecutionFields |-> "equal"],
                         fields |-> <<"title", "price", "canonicalUrl", "images",
                                      "aggregateRating">>]}
    /\ xout = <<>>
    /\ sinput \in
           LET names == {SynthesisFields[i] : i \in DOMAIN SynthesisFields}
           IN  IF called = "synthesizeRecipeWithAgent"
               THEN {d \in [names -> {"derived", "noSelector", "invalid"}] :
                        /\ d["thumbnail"] = "derived"
                        /\ \A f \in {"title", "brand", "canonicalUrl", "description"} :
                               d[f] # "invalid"}
               ELSE {[f \in names |-> "derived"]}
    /\ sresult = [outcome |-> "none", fields |-> <<>>,
                  error |-> [message |-> "", names |-> {}]]

(***************************************************************************)
(* Specifications                                                          *)
(***************************************************************************)
Init == StoreInit /\ OrchInit /\ PureInit("none")

\* One caller of the store that awaits each call before making the next.
Next == StoreStep(SequentialProcs, InputRecipes, DraftOptions, PromoteOptions)

Spec == Init /\ [][Next]_vars

\* The empty directory of a store that is used for the first time.
EmptyStoreInit ==
    /\ files = [i \in Ids |-> NoFile]
    /\ pc = [p \in Procs |-> "idle"]
    /\ call = [p \in Procs |-> IdleCall]
    /\ pending = [p \in Procs |-> None]
    /\ ret = NoReturn
    /\ svc = ServiceCall("none", "none", "", "", FALSE, None)

EmptyInit == EmptyStoreInit /\ OrchInit /\ PureInit("none")

\* Two callers of the store whose calls overlap.
RaceNext == StoreStep(Procs, RaceRecipes, RaceDraftOptions, RacePromoteOptions)

RaceSpec == EmptyInit /\ [][RaceNext]_vars

\* The workflow service, service.ts: requests that overlap call
\* generateRecipe, promoteRecipe (the promote of the store) and
\* parseDocument.
ServiceNext ==
    \/ \E p \in Procs, validation \in {"pass", "fail", "threw"}, when \in Instants :
          GenerateRecipe(p, validation, when)
    \/ \E p \in Procs, id \in Ids, options \in RacePromoteOptions :
          PromoteRejected(p, id, options)
    \/ \E p \in Procs, id \in Ids, options \in RacePromoteOptions :
          PromoteRead(p, id, options)
    \/ \E p \in Procs : WriteOpen(p)
    \/ \E p \in Procs : WriteFinish(p)
    \/ \E p \in Procs : ParseDocument(p)

ServiceSpec == EmptyInit /\ [][ServiceNext]_vars

\* One orchestration run over a store that is left alone.
OrchNext == OrchStep

OrchSpec == EmptyInit /\ [][OrchNext]_vars

\* The start of a specification of the calls of one pure function: a
\* store and an orchestration that are left alone.
CallInit(called) == EmptyStoreInit /\ OrchInit /\ PureInit(called)

\* One call of compareMoney, for every pair of amounts and every tolerance.
MoneySpec == CallInit("compareMoney") /\ [][CompareMoney]_vars

\* One call of validateRecipeAgainstDocument, for every recipe and document.
ValidationSpec == CallInit("validateRecipeAgainstDocument") /\ [][Validate]_vars

\* One call of compareText, for every pair of texts and every tolerance.
TextSpec == CallInit("compareText") /\ [][CompareText]_vars

\* Calls of executeRecipe on one document, for every document and every
\* order of the field recipes, while time passes.
ExecutionNext == ExecuteRecipe \/ Tick

ExecutionSpec == CallInit("executeRecipe") /\ [][ExecutionNext]_vars

\* One call of synthesizeRecipeWithAgent on any document.
SynthesisSpec == CallInit("synthesizeRecipeWithAgent") /\ [][SynthesizeRecipe]_vars

(***************************************************************************)
(* Properties of the recipe store                                          *)
(***************************************************************************)
\* The lifecycle state of the record a file holds ("" when it holds none).
PersistedState(content) ==
    IF content.kind = "record" THEN content.json.recipe.lifecycle.state ELSE ""

\* Slot p hands its record to writeFile in this step.
StartsWrite(p) == pc[p] = "write" /\ pc'[p] = "writing"

\* A call of op returns a value in this step.
Returns(op) == ret'.op = op /\ ret'.outcome = "returned"

\* C1: when two promote(id) calls overlap on the same draft record, exactly
\* one succeeds and the other raises "already stable": a promote never
\* returns successfully while another promote of the same id has passed the
\* draft check too (that one goes on to write and succeed as well).
C1_OnePromotionWins ==
    [][Returns("promote") =>
          ~\E q \in Procs \ {ret'.proc} :
              call[q].op = "promote" /\ call[q].id = ret'.arg]_vars

\* C2: a record that is stable stays stable: no write replaces a persisted
\* stable record by a record in another state, createDraft with the same id
\* included.
C2_StableIsFinal ==
    [][\A p \in Procs :
          (StartsWrite(p) /\ PersistedState(files[Get(pending[p]).id]) = "stable")
              => Get(pending[p]).recipe.lifecycle.state = "stable"]_vars

\* C3: per-record writes are atomic: no list, getById, getLatestStable or
\* promote fails on a file whose write is in progress or was cut short.
C3_ReadersNeverSeePartialWrite ==
    ~(ret.outcome = "threw" /\ ret.error = ErrSyntax)

\* C4: promote fails with "not found" exactly on a missing record, with
\* "already stable" exactly on a stable one and with "only draft recipes can
\* be promoted" exactly on one in any other state than draft; a failing
\* promote leaves every file as it was, and only a draft is taken on.
C4_PromoteFailureModes ==
    [][/\ (ret'.op = "promote" /\ ret'.outcome = "threw") =>
            /\ files' = files
            /\ pending' = pending
            /\ LET state == PersistedState(files[ret'.arg])
                   kind == files[ret'.arg].kind
               IN  /\ (ret'.error = ErrNotFound) <=> (kind = "none")
                   /\ (ret'.error = ErrAlreadyStable) <=> (state = "stable")
                   /\ (ret'.error = ErrOnlyDraftPromoted)
                         <=> (kind = "record" /\ state \notin {"draft", "stable"})
       /\ \A p \in Procs :
            (call[p].op = "none" /\ call'[p].op = "promote")
                => PersistedState(files[call'[p].id]) = "draft"]_vars

C4_Witness ==
    ret.op = "promote" /\ ret.outcome = "threw" /\ ret.error = ErrOnlyDraftPromoted

\* C5: promote of a draft record returns and persists a stable record whose
\* history is the draft's history followed by one stable event with the given
\* actor, whose updatedAt and promotedAt are the promotion time, and whose id
\* and createdAt are the draft's.
C5_PromoteResult ==
    [][Returns("promote") =>
          LET previous == Get(call[ret'.proc].seen)
              options == Get(call[ret'.proc].options)
              stored == Get(ret'.value)
              history == stored.recipe.lifecycle.history
          IN  /\ previous.recipe.lifecycle.state = "draft"
              /\ readRecord(files'[ret'.arg]) = ret'.value
              /\ stored.recipe.lifecycle.state = "stable"
              /\ Len(history) = Len(previous.recipe.lifecycle.history) + 1
              /\ IsPrefix(previous.recipe.lifecycle.history, history)
              /\ Last(history).state = "stable"
              /\ Last(history).actor = options.actor
              /\ Last(history).at = options.now
              /\ stored.updatedAt = options.now
              /\ stored.recipe.updatedAt = options.now
              /\ stored.promotedAt = Some(options.now)
              /\ stored.id = previous.id
              /\ stored.id = ret'.arg
              /\ stored.createdAt = previous.createdAt]_vars

C5_Witness ==
    /\ ret.op = "promote" /\ ret.outcome = "returned"
    /\ Len(Get(ret.value).recipe.lifecycle.history) = 3
    /\ Last(Get(ret.value).recipe.lifecycle.history).actor = "qa@mercator"
    /\ Get(ret.value).updatedAt > Get(ret.value).createdAt

\* C6: createDraft rejects a recipe that is not a draft and writes nothing;
\* otherwise it stores the recipe as a draft under the recipe's id, or under
\* an id no record carries when the recipe has none, with recipe.id equal to
\* the record's id, and its history is the incoming history, followed by one
\* new draft event exactly when the incoming history does not end in draft.
C6_CreateDraft ==
    [][/\ (ret'.op = "createDraft" /\ ret'.outcome = "threw") =>
            files' = files /\ pending' = pending /\ pc' = pc
       /\ \A p \in Procs :
            (call[p].op = "none" /\ call'[p].op = "createDraft") =>
                LET recipe == Get(call'[p].recipe)
                IN  /\ recipe.lifecycle.state = "draft"
                    /\ IF IsSome(recipe.id)
                       THEN call'[p].id = Get(recipe.id)
                       ELSE files[call'[p].id].kind = "none"
       /\ Returns("createDraft") =>
            LET recipe == Get(call[ret'.proc].recipe)
                options == Get(call[ret'.proc].options)
                incoming == recipe.lifecycle.history
                stored == Get(ret'.value)
                history == stored.recipe.lifecycle.history
                endsInDraft == Len(incoming) > 0 /\ Last(incoming).state = "draft"
            IN  /\ readRecord(files'[stored.id]) = ret'.value
                /\ \A i \in Ids \ {stored.id} : files'[i] = files[i]
                /\ stored.id = call[ret'.proc].id
                /\ stored.recipe.id = Some(stored.id)
                /\ stored.recipe.lifecycle.state = "draft"
                /\ stored.recipe.fields = recipe.fields
                /\ IsPrefix(incoming, history)
                /\ Len(history) = Len(incoming) + (IF endsInDraft THEN 0 ELSE 1)
                /\ Last(history).state = "draft"
                /\ ~endsInDraft => Last(history).at = options.now]_vars

C6_Witness ==
    /\ ret.op = "createDraft" /\ ret.outcome = "returned"
    /\ Len(Get(ret.value).recipe.lifecycle.history) = 2
    /\ Get(ret.value).recipe.lifecycle.history[1].state = "stable"
    /\ Get(ret.value).id = "r2"

\* C7: lifecycle history is append-only: whenever a record is written over a
\* persisted one, the persisted history is a prefix of the new history.
C7_HistoryAppendOnly ==
    [][\A p \in Procs :
          (StartsWrite(p) /\ files[Get(pending[p]).id].kind = "record") =>
              IsPrefix(ParseRecord(files[Get(pending[p]).id].json).recipe.lifecycle.history,
                       Get(pending[p]).recipe.lifecycle.history)]_vars

\* C26: every record the store persists, after any sequence of createDraft
\* and promote calls, has a lifecycle history that is not empty and a
\* lifecycle state that is the state of the last event of the history.
C26_StateIsLastEvent ==
    [][\A p \in Procs :
          StartsWrite(p) =>
              LET lifecycle == Get(pending[p]).recipe.lifecycle
              IN  /\ Len(lifecycle.history) > 0
                  /\ lifecycle.state = Last(lifecycle.history).state]_vars

\* A promoted record is being written whose history holds the draft event
\* createDraft added to an empty history and the stable event of promote.
C26_Witness ==
    \E p \in Procs :
        /\ pc[p] = "writing"
        /\ call[p].op = "promote"
        /\ Get(pending[p]).recipe.lifecycle.state = "stable"
        /\ Len(Get(pending[p]).recipe.lifecycle.history) = 2
        /\ Get(pending[p]).recipe.lifecycle.history[1].notes = "Recipe stored as draft"

\* C27: with a budget of three passes or more the guard raises no
\* pass-limit error: fewer than maxPasses passes have been executed when a
\* pass is about to start, at most maxPasses when one has completed, and a
\* run that aborts does so on the tool-invocation or the elapsed-time limit
\* (or because a pass runner threw).
C27_NoPassLimitError ==
    (ostate # "idle" /\ budget.maxPasses >= MinPasses) =>
        /\ oresult.error \notin {ErrPassLimitReached, ErrPassLimitExceeded}
        /\ (ostate = "before" => executedPasses < budget.maxPasses)
        /\ executedPasses <= budget.maxPasses

\* The third pass of a budget of exactly three passes completed and the
\* guard aborted the run on the elapsed-time limit.
C27_Witness ==
    /\ ostate = "threw"
    /\ budget.maxPasses = MinPasses
    /\ executedPasses = budget.maxPasses
    /\ oresult.error = ErrElapsed

\* C28: in every returned result the timestamps are ordered, startedAt <=
\* each pass's startedAt <= that pass's completedAt <= completedAt, and the
\* total elapsed time completedAt - startedAt is within budget.maxDurationMs.
C28_ReturnedTimestamps ==
    ostate = "returned" =>
        /\ \A i \in 1..Len(passes) :
               /\ start <= passes[i].startedAt
               /\ passes[i].startedAt <= passes[i].completedAt
               /\ passes[i].completedAt <= oresult.completedAt
        /\ oresult.completedAt - start <= budget.maxDurationMs

\* The ordering of the timestamps of a returned result, which holds.
ReturnedTimestampsOrdered ==
    ostate = "returned" =>
        \A i \in 1..Len(passes) :
            /\ start <= passes[i].startedAt
            /\ passes[i].startedAt <= passes[i].completedAt
            /\ passes[i].completedAt <= oresult.completedAt

StableRecords ==
    {ParseRecord(files[i].json) : i \in {j \in Ids : PersistedState(files[j]) = "stable"}}

\* C8: getLatestStable returns a stable record whose updatedAt no stable
\* record exceeds, and nothing when no record is stable; never a draft.
C8_LatestStable ==
    (ret.op = "getLatestStable" /\ ret.outcome = "returned") =>
        IF StableRecords = {}
        THEN ret.value = None
        ELSE /\ IsSome(ret.value)
             /\ Get(ret.value) \in StableRecords
             /\ \A r \in StableRecords : r.updatedAt <= Get(ret.value).updatedAt

C8_Witness ==
    /\ ret.op = "getLatestStable" /\ ret.outcome = "returned" /\ IsSome(ret.value)
    /\ Cardinality(StableRecords) = 2
    /\ \E r \in StableRecords : r.updatedAt < Get(ret.value).updatedAt

\* C9: the record createDraft returns reads back equal from the store, and
\* carries the document target that was supplied to createDraft.
C9_RoundTrip ==
    [][Returns("createDraft") =>
          /\ readRecord(files'[ret'.arg]) = ret'.value
          /\ Get(ret'.value).document = Get(call[ret'.proc].options).document]_vars

(***************************************************************************)
(* Properties of the orchestration                                         *)
(***************************************************************************)
\* C10: an orchestration whose budget override sets maxPasses below 3 raises
\* the error "requires at least three passes" before any pass executes and
\* before any tool is invoked: such a run is never looking up rules, never
\* in a pass, and has no pass summary, no executed pass and no tool usage.
C10_MinimumPassBudget ==
    budget.maxPasses < 3 =>
        /\ ostate = "threw"
        /\ oresult.outcome = "threw"
        /\ oresult.error = ErrMinPasses
        /\ passes = <<>>
        /\ executedPasses = 0
        /\ usageLog = 0
        /\ totalToolInvocations = 0

\* A run with a budget of two passes has been refused.
C10_Witness ==
    /\ budget.maxPasses = 2
    /\ ostate = "threw"
    /\ oresult.error = ErrMinPasses
    /\ passes = <<>>

\* C11: an orchestration that returns a result used at most
\* maxToolInvocations tool invocations over its three passes, and every pass
\* started and completed no later than maxDurationMs after the start of the
\* orchestration.
C11_ReturnedWithinBudget ==
    ostate = "returned" =>
        /\ Len(passes) = 3
        /\ totalToolInvocations = passes[1].toolUsage + passes[2].toolUsage
                                      + passes[3].toolUsage
        /\ totalToolInvocations <= budget.maxToolInvocations
        /\ \A i \in 1..3 :
              /\ passes[i].startedAt - start <= budget.maxDurationMs
              /\ passes[i].completedAt - start <= budget.maxDurationMs

\* A run returned that used its whole tool budget and its whole time budget.
C11_Witness ==
    /\ ostate = "returned"
    /\ totalToolInvocations = budget.maxToolInvocations
    /\ totalToolInvocations > 0
    /\ passes[3].completedAt - start = budget.maxDurationMs
    /\ budget.maxDurationMs > 0

\* C12: once the cumulative number of tool invocations of an orchestration
\* has exceeded maxToolInvocations no further tool invocation is performed,
\* and the orchestration returns no result.
C12_NoToolAfterLimit ==
    [][/\ (usageLog' = usageLog + 1) =>
            totalToolInvocations + usageLog <= budget.maxToolInvocations
       /\ (ostate' = "returned") =>
            totalToolInvocations <= budget.maxToolInvocations]_vars

\* C13: an orchestration that returns has executed exactly the three passes
\* expected data, recipe synthesis, validation, in this order, each one
\* started after the one before it completed; a pass runs only when the
\* passes before it are recorded.
C13_ThreePassesInOrder ==
    /\ ostate = "running" => Len(passes) = passIndex - 1
    /\ ostate = "returned" =>
          /\ Len(passes) = 3
          /\ executedPasses = 3
          /\ passes[1].id = "pass-1-expected-data"
          /\ passes[2].id = "pass-2-recipe-synthesis"
          /\ passes[3].id = "pass-3-validation"
          /\ \A i \in 1..3 : passes[i].startedAt <= passes[i].completedAt
          /\ \A i \in 1..2 : passes[i].completedAt <= passes[i + 1].startedAt

\* A run returned whose passes are separated in time.
C13_Witness ==
    /\ ostate = "returned"
    /\ passes[1].completedAt < passes[2].startedAt
    /\ passes[2].completedAt < passes[3].startedAt

\* C14: without a matching rule set, the tool invocations that derive
\* selectors are made during pass 2: none is made during pass 1 or reported
\* in the tool usage of pass 1, and pass 2 reports them.
C14_DerivationInPassTwo ==
    /\ (ostate = "running" /\ ~ruleSet /\ passIndex = 1) => derivationCalls(usageLog) = 0
    /\ (ostate = "returned" /\ ~ruleSet) =>
          /\ derivationCalls(passes[1].toolUsage) = 0
          /\ passes[2].toolUsage > 0

\* C15: a pass summary is marked failure exactly when it is the validation
\* pass and its result status is fail; the orchestration with a failed
\* validation has not raised, goes on to return, and its result holds all
\* three pass summaries.
C15_ValidationFailureIsData ==
    /\ \A i \in 1..Len(passes) :
          (passes[i].status = "failure")
              <=> (passes[i].id = "pass-3-validation" /\ passes[i].result = "fail")
    /\ \A i \in 1..Len(passes) :
          passes[i].result = "fail" =>
              /\ ostate \in {"finishing", "returned"}
              /\ oresult.outcome # "threw"
              /\ Len(passes) = 3

\* A run returned with a validation that failed.
C15_Witness ==
    /\ ostate = "returned"
    /\ oresult.outcome = "returned"
    /\ Len(passes) = 3
    /\ passes[3].status = "failure"
    /\ passes[1].status = "success" /\ passes[2].status = "success"

\* C16: in a returned result the synthesis summary carries an origin tag
\* that equals the origin of the expected-data summary, the rule-set tag
\* when the rule lookup matched and the agent (heuristic) tag otherwise, and
\* a synthesis of heuristic origin has a non-empty iterations log.
C16_OriginTags ==
    ostate = "returned" =>
        /\ passes[2].origin \in {"rule-set", "agent"}
        /\ passes[2].origin = passes[1].origin
        /\ passes[1].origin = (IF ruleSet THEN "rule-set" ELSE "agent")
        /\ passes[2].origin = "agent" =>
              (IsSome(passes[2].iterations) /\ Get(passes[2].iterations) > 0)

(***************************************************************************)
(* Properties of the validation                                            *)
(***************************************************************************)
\* The required fields for which the extraction finds nothing: the element
\* is not in the document or the recipe has no field.
NothingExtracted ==
    {f \in {"title", "canonicalUrl", "price", "images"} : vinput[f] \in {"absent", "omitted"}}

\* C17: when the extraction of a required field yields nothing (and every
\* selector is a css selector), the validation returns without raising a
\* result with status fail, confidence 0 and a stop reason that names the
\* missing fields, and neither validates the record schema nor scores the
\* fields against their tolerances.
C17_MissingRequiredShortCircuit ==
    (/\ vresult.outcome # "none"
     /\ NothingExtracted # {}
     /\ \A f \in DOMAIN vinput : stepStrategy(vinput[f]) = "css") =>
        /\ vresult.outcome = "returned"
        /\ vresult.status = "fail"
        /\ RatEq(vresult.confidence, Rat(0, 1))
        /\ vresult.stopReason.kind = "Missing required fields"
        /\ \A f \in NothingExtracted :
              \E i \in 1..Len(vresult.stopReason.fields) : vresult.stopReason.fields[i] = f
        /\ ~vresult.schemaValidated
        /\ ~vresult.toleranceScored

\* The fields of the recipe whose comparison fails.
FailingFields ==
    {f \in DOMAIN vinput :
        /\ vinput[f] # "omitted"
        /\ compareWithTolerance(f, extractedValue(vinput, f).tag).status = "fail"}

C19_XPathFailsLoudly ==
    (/\ vresult.outcome # "none"
     /\ \E f \in DOMAIN vinput : stepStrategy(vinput[f]) = "xpath") =>
        vresult.outcome = "threw"

(***************************************************************************)
(* Properties of the money comparison                                      *)
(***************************************************************************)
\* n/d rounded to the nearest integer, a half rounded up (n >= 0, d > 0).
RoundHalfUp(n, d) == IF 2 * (n % d) >= d THEN (n \div d) + 1 ELSE n \div d

\* round(amount * 10^precision)
MinorUnits(money) ==
    RoundHalfUp(money.amount * Pow10(money.precision), Pow10(MaxPrecision))

\* C20: the money comparison passes exactly when the absolute difference of
\* the two values in minor units, round(amount * 10^precision), is at most
\* maxAbsoluteMinorUnits and |expected.amount - actual.amount| is at most
\* maxRelativeDifference times expected.amount, the relative check being
\* satisfied when expected.amount is 0; a limit left out counts as 0.
C20_MoneyComparison ==
    mresult.status # "none" =>
        LET e == minput.expected
            a == minput.actual
            maxAbsolute == IF IsSome(minput.tolerance.maxAbsoluteMinorUnits)
                           THEN Get(minput.tolerance.maxAbsoluteMinorUnits) ELSE 0
            maxRelative == IF IsSome(minput.tolerance.maxRelativeDifference)
                           THEN Get(minput.tolerance.maxRelativeDifference) ELSE Rat(0, 1)
            delta == Abs(e.amount - a.amount)
        IN  (mresult.status = "pass") <=>
                /\ Abs(MinorUnits(e) - MinorUnits(a)) <= maxAbsolute
                /\ \/ e.amount = 0
                   \/ delta * maxRelative.den <= maxRelative.num * e.amount

\* A comparison failed on the relative difference alone, between amounts
\* that round to the same minor units.
C20_Witness ==
    /\ mresult.status = "fail"
    /\ minput.expected.amount # minput.actual.amount
    /\ minput.expected.amount > 0
    /\ mresult.diffMinor = 0
    /\ IsSome(minput.tolerance.maxRelativeDifference)

\* C21: with the expected price 149.00 of precision 2 and the money
\* tolerance of at most 1 minor unit and relative difference 0, the actual
\* amount 149.01 passes the comparison and the actual amount 149.02 fails.
C21_PriceBoundary ==
    (/\ mresult.status # "none"
     /\ minput.expected = Money(1490000, 2)
     /\ minput.tolerance = MoneyTolerance(Some(1), Some(Rat(0, 1)))) =>
        /\ (minput.actual = Money(1490100, 2)) => (mresult.status = "pass")
        /\ (minput.actual = Money(1490200, 2)) => (mresult.status = "fail")

(***************************************************************************)
(* Properties of the text comparison                                       *)
(***************************************************************************)
WhiteSpace == {" ", "\t"}

\* The text without its leading white space.
RECURSIVE TrimStart(_)
TrimStart(text) ==
    IF text # <<>> /\ Head(text) \in WhiteSpace THEN TrimStart(Tail(text)) ELSE text

\* The text without its trailing white space.
RECURSIVE TrimEnd(_)
TrimEnd(text) ==
    IF text # <<>> /\ text[Len(text)] \in WhiteSpace
    THEN TrimEnd(SubSeq(text, 1, Len(text) - 1)) ELSE text

\* The text with every run of white space replaced by one space.
RECURSIVE CollapseWhiteSpace(_)
CollapseWhiteSpace(text) ==
    IF text = <<>> THEN <<>>
    ELSE IF Head(text) \in WhiteSpace THEN <<" ">> \o CollapseWhiteSpace(TrimStart(text))
    ELSE <<Head(text)>> \o CollapseWhiteSpace(Tail(text))

\* The Levenshtein distance of two texts, by its recurrence.
RECURSIVE EditDistance(_, _)
EditDistance(a, b) ==
    IF a = <<>> THEN Len(b)
    ELSE IF b = <<>> THEN Len(a)
    ELSE LET substitute == EditDistance(Tail(a), Tail(b)) + (IF Head(a) = Head(b) THEN 0 ELSE 1)
             delete == EditDistance(Tail(a), b) + 1
             insert == EditDistance(a, Tail(b)) + 1
         IN  IF substitute <= delete /\ substitute <= insert THEN substitute
             ELSE IF delete <= insert THEN delete ELSE insert

\* The text normalized by the optional trim, by the collapse of white space
\* when collapse is set, and by the optional lowercasing.
Normalized(text, tolerance, collapse) ==
    LET trimmed == IF tolerance.trim THEN TrimEnd(TrimStart(text)) ELSE text
        collapsed == IF collapse THEN CollapseWhiteSpace(trimmed) ELSE trimmed
    IN  IF tolerance.caseSensitive THEN collapsed
        ELSE [i \in 1..Len(collapsed) |-> IF collapsed[i] = "A" THEN "a" ELSE collapsed[i]]

\* The comparison made passes exactly when the distance of the normalized
\* texts over the length of the longer one (at least 1) is at most
\* maxDistanceRatio, its confidence is 1 minus that ratio, and a text
\* compared with itself passes with confidence 1.
TextComparisonIsRatioTest(collapse) ==
    tresult.status # "none" =>
        LET e == Normalized(tinput.expected, tinput.tolerance, collapse)
            a == Normalized(tinput.actual, tinput.tolerance, collapse)
            distance == EditDistance(e, a)
            longer == IF Len(e) >= Len(a) THEN Len(e) ELSE Len(a)
            maxLength == IF longer >= 1 THEN longer ELSE 1
            limit == tinput.tolerance.maxDistanceRatio
        IN  /\ (tresult.status = "pass") <=> (distance * limit.den <= limit.num * maxLength)
            /\ tresult.status \in {"pass", "fail"}
            /\ RatEq(tresult.confidence, Rat(maxLength - distance, maxLength))
            /\ (tinput.expected = tinput.actual) =>
                  (tresult.status = "pass" /\ RatEq(tresult.confidence, Rat(1, 1)))

\* C22: the text comparison normalizes both texts only by the optional trim
\* and the optional lowercasing, passes exactly when the Levenshtein
\* distance over the length of the longer text (at least 1) is at most
\* maxDistanceRatio, with confidence 1 minus the ratio, and a text compared
\* with itself passes with confidence 1.
C22_TextComparison == TextComparisonIsRatioTest(FALSE)

\* C22, amended: the normalization also replaces every run of white space
\* by one space, after the optional trim and before the optional
\* lowercasing; the rest of the statement is unchanged.
C22_TextComparisonCollapsed == TextComparisonIsRatioTest(TRUE)

\* Two texts that differ in white space and in case pass with no distance
\* allowed, compared without trim and without regard to case.
C22_Witness ==
    /\ tresult.status = "pass"
    /\ tinput.expected = <<"A", " ">>
    /\ tinput.actual = <<"a", "\t">>
    /\ ~tinput.tolerance.trim
    /\ ~tinput.tolerance.caseSensitive
    /\ tinput.tolerance.maxDistanceRatio = Rat(0, 1)

C29_FieldOrderIrrelevant ==
    \A i \in DOMAIN xout :
        xout[i].outcome = "returned" =>
            xout[i] = executeRecipe(xinput.html,
                                    <<"title", "canonicalUrl", "price", "images",
                                      "aggregateRating">>)

(***************************************************************************)
(* Properties of the workflow service                                      *)
(***************************************************************************)
\* C24: a recipe is stored as a draft only after a validation that passed:
\* generateRecipe calls createDraft only when the validation status of its
\* orchestration is pass.
C24_DraftOnlyAfterPass ==
    (svc.op = "generateRecipe" /\ svc.outcome = "createDraft") => svc.validation = "pass"

\* C25: parseDocument with no stable recipe in the store fails with the
\* error 'No stable recipe available' before a document is fetched or
\* read, and the recipe it executes is never a draft.
C25_NoStableNoParse ==
    [][(\E p \in Procs : ParseDocument(p)) =>
          /\ (StableRecords = {}) =>
                /\ svc'.outcome = "threw"
                /\ svc'.error = "No stable recipe available for execution."
                /\ ~svc'.fetched
          /\ IsSome(svc'.used) => Get(svc'.used).recipe.lifecycle.state = "stable"]_vars

====
